---- MODULE Spec2Model ----
(***************************************************************************)
(* State-machine model of dgm-pipeline/models.py: the GenerativeModel base *)
(* class and its two trainers, GAN (WGAN-GP) and VAE.                      *)
(*                                                                         *)
(* Numeric tensors are abstracted to what the control flow depends on:     *)
(*   - a network's parameters are a version number, bumped by every        *)
(*     optimizer.apply_gradients on that network;                          *)
(*   - a dataset is nb minibatches of batch_size examples each;            *)
(*   - a sample batch is identified by the number of the sample() call     *)
(*     that drew it and the generator version that decoded it;             *)
(*   - a beta weight is a rational num/den.                                *)
(* An exception ends the call it is raised in; ret records it.             *)
(***************************************************************************)
EXTENDS Integers, Sequences, FiniteSets, TLC

\* ------------------------------------------------------------------ bounds
MaxEpochs == 3
MaxBatches == 5
MaxGenTrainSteps == 2
MaxLossUpdate == 2
MaxSaveInterval == 2
MaxCycleLength == 2
MaxBeta == 2
MaxCalls == 2
MaxBatchSize == 3
MaxN == 4
NumExamples == 1
NumPixels == 2
MaxTemperature == 2

\* ------------------------------------------------------- program constants
\* plot_sample(self, n=36, ...): the number of real examples a plot asks for
PlotN == 36
\* set_beta_schedule(self, beta_max=1., default_cycle_length=5)
DefaultCycleLength == 5

VARIABLES
    kind,               \* the class of the model object
    spec,               \* self.spec
    dataset,            \* self.dataset
    has_generator,      \* hasattr(self, 'generative_net')
    has_inference,      \* hasattr(self, 'inference_net')
    params,             \* versions of the two networks' trainable variables
    D_iterations,       \* self.D_optimizer.iterations
    G_iterations,       \* self.G_optimizer.iterations
    has_loss_history,   \* hasattr(self, 'loss_history')
    loss_history,       \* self.loss_history
    has_sample_history, \* hasattr(self, 'sample_history')
    sample_history,     \* self.sample_history
    n_samples,          \* number of sample() calls so far
    has_beta_schedule,  \* hasattr(self, 'beta_schedule')
    beta_schedule,      \* self.beta_schedule
    beta_current,       \* self.beta_current
    files,              \* the file system under the save prefixes
    batch,              \* the image batch handed to create_masked_logp
    logp,               \* the closure create_masked_logp returned
    pc,                 \* position inside the running train call
    call,               \* arguments and locals of the running train call
    events,             \* what the current epoch of VAE.train has done so far
    ret,                \* how the last finished call ended
    ncalls              \* number of calls made on the model

vars == <<kind, spec, dataset, has_generator, has_inference, params,
          D_iterations, G_iterations, has_loss_history, loss_history,
          has_sample_history, sample_history, n_samples, has_beta_schedule,
          beta_schedule, beta_current, files, batch, logp, pc, call, events, ret,
          ncalls>>

\* ----------------------------------------------------------------- helpers
Max(a, b) == IF a >= b THEN a ELSE b

Last(s) == s[Len(s)]

IsPrefix(s, t) == Len(s) <= Len(t) /\ \A i \in 1..Len(s) : s[i] = t[i]

\* n copies of the sequence s, one after the other (np.tile)
RECURSIVE Tile(_, _)
Tile(s, n) == IF n <= 0 THEN <<>> ELSE s \o Tile(s, n - 1)

\* ------------------------------------------------------------ file system
Prefixes == {"ckpt", "other"}
Nets == {"inference_net", "generative_net"}
Paths == Prefixes \X Nets

Absent == [exists |-> FALSE, foreign |-> FALSE, net |-> "none", data |-> 0]
Foreign == [exists |-> TRUE, foreign |-> TRUE, net |-> "none", data |-> 0]
\* the file keras writes for network net at parameter version `version`
Saved(net, version) ==
    [exists |-> TRUE, foreign |-> FALSE, net |-> net, data |-> version]

\* (the file left where it is)
KeepIfExists(fs, path) == fs

\* if exists(path): remove(path)
RemoveIfExists(fs, path) ==
    IF fs[path].exists THEN [fs EXCEPT ![path] = Absent] ELSE fs

\* keras Model.save(path, overwrite): with overwrite=False an existing file
\* is kept unless the prompt is answered yes; modelled as kept
KerasSave(fs, path, content, overwrite) ==
    IF fs[path].exists /\ ~overwrite THEN fs
    ELSE [fs EXCEPT ![path] = content]

SaveNet(fs, path, content, overwrite) ==
    KerasSave(RemoveIfExists(fs, path), path, content, overwrite)

\* GenerativeModel.save: the files it leaves behind
SaveFiles(fs, prefix, overwrite, hasgen, hasinf, p) ==
    LET fs1 == IF hasinf
               THEN SaveNet(fs, <<prefix, "inference_net">>,
                            Saved("inference_net", p.inf), overwrite)
               ELSE fs
    IN  IF hasgen
        THEN SaveNet(fs1, <<prefix, "generative_net">>,
                     Saved("generative_net", p.gen), overwrite)
        ELSE fs1

\* (the error raised as soon as either network is missing)
SaveRaisesIfAnyMissing(hasgen, hasinf) == ~(hasgen /\ hasinf)

\* GenerativeModel.save: whether it ends in 'No model object found for saving.'
SaveRaises(hasgen, hasinf) == ~(hasgen \/ hasinf)

\* ------------------------------------------------------- sample_training
\* n_batches = int(n/batch_size)+1
NBatchesToPull(n, batch_size) == (n \div batch_size) + 1

\* gen.next() raises StopIteration once the iterator is exhausted
SampleTrainingRaises(n, ds) == NBatchesToPull(n, ds.batch_size) > ds.nb

\* len(np.vstack(batches)[0:n])
SampleTrainingCount(n, ds) ==
    LET stacked == NBatchesToPull(n, ds.batch_size) * ds.batch_size
    IN  IF n <= stacked THEN n ELSE stacked

\* -------------------------------------------------- add_to_sample_history
\* (the list started afresh on every call)
SampleHistoryFresh(has, hist) == <<>>

\* if not hasattr(self,'sample_history'): self.sample_history = []
SampleHistoryBase(has, hist) == IF has THEN hist ELSE <<>>

NewSample(k, p) == [draw |-> k, gen |-> p.gen]

\* ---------------------------------------------------------- beta schedule
Beta(num, den) == [num |-> num, den |-> den]

\* np.linspace(0, stop, n): n evenly spaced values, the last one stop
Linspace(stop, n) ==
    [i \in 1..n |-> IF n = 1 THEN Beta(0, 1) ELSE Beta((i - 1) * stop, n - 1)]

CyclicNames == {"cyclic", "cyclical"}
ScheduleNames == {"linear", "constant", "cosine"} \cup CyclicNames

CycleLength(sp) ==
    IF sp.has_cycle_length THEN sp.beta_cycle_length ELSE DefaultCycleLength

\* ncycles = max(int(n_epochs/cycle_length),1)
NCycles(n_epochs, cycle_length) == Max(n_epochs \div cycle_length, 1)

\* VAE.set_beta_schedule: whether self.beta_schedule gets assigned
SetsBetaSchedule(sp) ==
    sp.has_schedule /\ sp.beta_schedule \in ({"linear", "constant"} \cup CyclicNames)

\* VAE.set_beta_schedule: the value assigned
BetaSchedule(sp, beta_max) ==
    LET n_epochs == sp.epochs
        cycle_length == CycleLength(sp)
    IN  IF sp.beta_schedule = "linear" THEN Linspace(beta_max, n_epochs)
        ELSE IF sp.beta_schedule \in CyclicNames
        THEN LET unit == Linspace(1, cycle_length)
                 tiled == Tile(unit, NCycles(n_epochs, cycle_length))
             IN  [i \in 1..Len(tiled) |-> Beta(tiled[i].num * beta_max, tiled[i].den)]
        ELSE [i \in 1..n_epochs |-> Beta(beta_max, 1)]

NoBeta == Beta(0, 0)

\* ------------------------------------------------------------- train calls
EpochsArgs ==
    {[given |-> FALSE, value |-> 0]} \cup
    {[given |-> TRUE, value |-> n] : n \in 1..MaxEpochs}

\* if epochs is None and 'epochs' in self.spec.keys()
EpochsTaken(arg, sp) == ~arg.given /\ sp.has_epochs

\* (the generator step keyed off the minibatch index instead)
GeneratorDueByIndex(iterations, j, gen_train_steps) == (j + 1) % gen_train_steps = 0

\* self.D_optimizer.iterations.numpy() % self.spec['gen_train_steps'] == 0
GeneratorDue(iterations, j, gen_train_steps) == iterations % gen_train_steps = 0

\* (the triple logged without the warm-up)
LossLogDueNoWarmUp(j, loss_update, gen_train_steps) == j % loss_update = 0

\* j % loss_update == 0 and j > self.spec['gen_train_steps']
LossLogDue(j, loss_update, gen_train_steps) ==
    j % loss_update = 0 /\ j > gen_train_steps

\* (the checkpoint keyed off the number of epochs done)
CheckpointDueAfter(current_epoch, save_interval) ==
    (current_epoch + 1) % save_interval = 0

\* current_epoch % save_interval == 0
CheckpointDue(current_epoch, save_interval) == current_epoch % save_interval = 0

IdleCall ==
    [given |-> FALSE, value |-> 0, epochs |-> 0, loss_update |-> 0,
     plot |-> FALSE, save_interval |-> 0, e |-> 0, j |-> 0,
     g_defined |-> FALSE, epoch_loss |-> <<>>, hist0 |-> 0]

NoRet == [op |-> "none", exc |-> "none", given |-> FALSE, prefix |-> "none",
          n |-> 0, z |-> <<>>, val |-> <<>>]
\* how a train call, given or not given an epochs argument, ended
Ret(op, exc, given) == [NoRet EXCEPT !.op = op, !.exc = exc, !.given = given]
\* how a call with a prefix or a count n ended, and what it returned
RetOf(op, exc, prefix, n, val) ==
    [NoRet EXCEPT !.op = op, !.exc = exc, !.prefix = prefix, !.n = n, !.val = val]

\* no batch handed over, no closure built yet
NoBatch == [masked |-> FALSE, data |-> <<>>, mask |-> <<>>]
NoLogp == [built |-> FALSE, is_used |-> <<>>, raw_data |-> <<>>, temperature |-> 0]

Event(ev, e) == [ev |-> ev, e |-> e]

\* --------------------------------------------------------------- the model
BaseSpec ==
    [name |-> "ckpt", has_epochs |-> FALSE, epochs |-> 0, gen_train_steps |-> 1,
     has_schedule |-> FALSE, beta_schedule |-> "none",
     has_cycle_length |-> FALSE, beta_cycle_length |-> 0,
     has_vae_beta |-> FALSE, vae_beta |-> 1]

GANSpecs ==
    {[BaseSpec EXCEPT !.has_epochs = (n > 0), !.epochs = n, !.gen_train_steps = g] :
        n \in 0..MaxEpochs, g \in 1..MaxGenTrainSteps}

\* VAE.__init__ reads spec['epochs'] in set_beta_schedule: the key is there
VAESpecs ==
    {[BaseSpec EXCEPT !.has_epochs = TRUE, !.epochs = n,
                      !.has_vae_beta = (b > 1), !.vae_beta = b] :
        n \in 1..MaxEpochs, b \in 1..MaxBeta}
    \cup
    {[BaseSpec EXCEPT !.has_epochs = TRUE, !.epochs = n,
                      !.has_schedule = TRUE, !.beta_schedule = s,
                      !.has_vae_beta = (b > 1), !.vae_beta = b] :
        n \in 1..MaxEpochs, s \in ScheduleNames \ {"cyclical"}, b \in 1..MaxBeta}
    \cup
    {[BaseSpec EXCEPT !.has_epochs = TRUE, !.epochs = n,
                      !.has_schedule = TRUE, !.beta_schedule = s,
                      !.has_cycle_length = TRUE, !.beta_cycle_length = c] :
        n \in 1..MaxEpochs, s \in CyclicNames, c \in 1..MaxCycleLength}

\* self.beta: spec['vae_beta'] if the key is there, else 1.
BetaOf(sp) == IF sp.has_vae_beta THEN sp.vae_beta ELSE 1

TrainDatasets ==
    {[set |-> TRUE, nb |-> nb, batch_size |-> bs] :
        nb \in 1..MaxBatches, bs \in {PlotN \div 2, PlotN}}

InitCommon ==
    /\ params = [gen |-> 0, inf |-> 0]
    /\ D_iterations = 0
    /\ G_iterations = 0
    /\ loss_history = <<>>
    /\ has_sample_history = FALSE
    /\ sample_history = <<>>
    /\ n_samples = 0
    /\ beta_current = NoBeta
    /\ pc = "idle"
    /\ call = IdleCall
    /\ events = <<>>
    /\ ret = NoRet
    /\ ncalls = 0
    /\ logp = NoLogp

\* A GAN or a VAE right after construction. GAN.__init__ hands no dataset to
\* GenerativeModel.__init__; the GAN is modelled with the dataset its train
\* loop iterates over in place.
Init ==
    /\ InitCommon
    /\ kind \in {"GAN", "VAE"}
    /\ spec \in (IF kind = "GAN" THEN GANSpecs ELSE VAESpecs)
    /\ dataset \in TrainDatasets
    /\ has_generator = TRUE
    /\ has_inference = TRUE
    /\ has_loss_history = (kind = "VAE")
    /\ has_beta_schedule = (kind = "VAE" /\ SetsBetaSchedule(spec))
    /\ beta_schedule = IF kind = "VAE" /\ SetsBetaSchedule(spec)
                       THEN BetaSchedule(spec, BetaOf(spec)) ELSE <<>>
    /\ files = [p \in Paths |-> Absent]
    /\ batch = NoBatch

\* ------------------------------------------------------------------ sample
\* plot_sample: sample(), then sample_training(n), which may run the
\* dataset iterator dry
PlotRaises(ds) == SampleTrainingRaises(PlotN, ds)

\* GenerativeModel.add_to_sample_history
AddToSampleHistory ==
    /\ has_sample_history' = TRUE
    /\ sample_history' = Append(SampleHistoryBase(has_sample_history, sample_history),
                                NewSample(n_samples + 1, params))
    /\ n_samples' = n_samples + 1

\* add_to_sample_history called by the user between train calls; without a
\* generative_net sample() raises after the list was created
CallAddToSampleHistory ==
    /\ pc = "idle"
    /\ ncalls < MaxCalls
    /\ ncalls' = ncalls + 1
    /\ IF has_generator
       THEN /\ AddToSampleHistory
            /\ ret' = Ret("add_to_sample_history", "none", FALSE)
       ELSE /\ has_sample_history' = TRUE
            /\ sample_history' = SampleHistoryBase(has_sample_history, sample_history)
            /\ n_samples' = n_samples
            /\ ret' = Ret("add_to_sample_history", "AttributeError", FALSE)
    /\ UNCHANGED <<kind, spec, dataset, batch, logp, has_generator, has_inference, params,
                   D_iterations, G_iterations, has_loss_history, loss_history,
                   has_beta_schedule, beta_schedule, beta_current, files, pc,
                   call, events>>

\* ---------------------------------------------------------------- GAN.train
Raise(op, exc, given) ==
    /\ pc' = "idle"
    /\ call' = IdleCall
    /\ ret' = Ret(op, exc, given)

GANTrain ==
    /\ kind = "GAN"
    /\ pc = "idle"
    /\ ncalls < MaxCalls
    /\ ncalls' = ncalls + 1
    /\ \E arg \in EpochsArgs, lu \in 1..MaxLossUpdate, plot \in BOOLEAN :
        /\ has_loss_history' = TRUE
        /\ loss_history' = <<>>
        /\ IF EpochsTaken(arg, spec)
           THEN /\ pc' = "gan_next"
                /\ call' = [IdleCall EXCEPT !.given = arg.given, !.value = arg.value,
                                            !.epochs = spec.epochs, !.loss_update = lu,
                                            !.plot = plot,
                                            !.hist0 = Len(sample_history)]
                /\ ret' = NoRet
           ELSE Raise("train", "ValueError_epochs", arg.given)
    /\ events' = <<>>
    /\ UNCHANGED <<kind, spec, dataset, batch, logp, has_generator, has_inference, params,
                   D_iterations, G_iterations, has_sample_history, sample_history,
                   n_samples, has_beta_schedule, beta_schedule, beta_current, files>>

\* for e in range(epochs)
GANNextEpoch ==
    /\ pc = "gan_next"
    /\ IF call.e < call.epochs
       THEN /\ pc' = "gan_batch"
            /\ call' = [call EXCEPT !.j = 0]
            /\ ret' = ret
       ELSE /\ pc' = "idle"
            /\ call' = IdleCall
            /\ ret' = Ret("train", "none", call.given)
    /\ UNCHANGED <<kind, spec, dataset, batch, logp, has_generator, has_inference, params,
                   D_iterations, G_iterations, has_loss_history, loss_history,
                   has_sample_history, sample_history, n_samples,
                   has_beta_schedule, beta_schedule, beta_current, files, events,
                   ncalls>>

\* one pass of the body of `for j,x_real in t`
GANMinibatch ==
    /\ pc = "gan_batch"
    /\ call.j < dataset.nb
    /\ LET d == D_iterations + 1
           due == GeneratorDue(d, call.j, spec.gen_train_steps)
           g == IF due THEN G_iterations + 1 ELSE G_iterations
           defined == call.g_defined \/ due
           log == LossLogDue(call.j, call.loss_update, spec.gen_train_steps)
       IN  /\ D_iterations' = d
           /\ G_iterations' = g
           /\ params' = [gen |-> IF due THEN params.gen + 1 ELSE params.gen,
                         inf |-> params.inf + 1]
           /\ IF log /\ ~defined
              THEN /\ Raise("train", "UnboundLocalError", call.given)
                   /\ loss_history' = loss_history
              ELSE /\ loss_history' = IF log THEN Append(loss_history, <<d, d, g>>)
                                      ELSE loss_history
                   /\ pc' = pc
                   /\ call' = [call EXCEPT !.j = @ + 1, !.g_defined = defined]
                   /\ ret' = ret
    /\ UNCHANGED <<kind, spec, dataset, batch, logp, has_generator, has_inference,
                   has_loss_history, has_sample_history, sample_history, n_samples,
                   has_beta_schedule, beta_schedule, beta_current, files, events,
                   ncalls>>

\* the end of an epoch: plot_sample if asked for, add_to_sample_history
GANEpochEnd ==
    /\ pc = "gan_batch"
    /\ call.j = dataset.nb
    /\ IF call.plot /\ PlotRaises(dataset)
       THEN /\ Raise("train", "StopIteration", call.given)
            /\ n_samples' = n_samples + 1
            /\ UNCHANGED <<has_sample_history, sample_history>>
       ELSE /\ has_sample_history' = TRUE
            /\ LET k == IF call.plot THEN n_samples + 1 ELSE n_samples
               IN  /\ sample_history' =
                        Append(SampleHistoryBase(has_sample_history, sample_history),
                               NewSample(k + 1, params))
                   /\ n_samples' = k + 1
            /\ pc' = "gan_next"
            /\ call' = [call EXCEPT !.e = @ + 1]
            /\ ret' = ret
    /\ UNCHANGED <<kind, spec, dataset, batch, logp, has_generator, has_inference, params,
                   D_iterations, G_iterations, has_loss_history, loss_history,
                   has_beta_schedule, beta_schedule, beta_current, files, events,
                   ncalls>>

\* ---------------------------------------------------------------- VAE.train
VAETrain ==
    /\ kind = "VAE"
    /\ pc = "idle"
    /\ ncalls < MaxCalls
    /\ ncalls' = ncalls + 1
    /\ \E arg \in EpochsArgs, plot \in BOOLEAN, si \in 1..MaxSaveInterval :
        IF EpochsTaken(arg, spec)
        THEN /\ pc' = "vae_next"
             /\ call' = [IdleCall EXCEPT !.given = arg.given, !.value = arg.value,
                                         !.epochs = spec.epochs, !.plot = plot,
                                         !.save_interval = si,
                                         !.hist0 = Len(sample_history)]
             /\ ret' = NoRet
        ELSE Raise("train", "ValueError_epochs", arg.given)
    /\ events' = <<>>
    /\ UNCHANGED <<kind, spec, dataset, batch, logp, has_generator, has_inference, params,
                   D_iterations, G_iterations, has_loss_history, loss_history,
                   has_sample_history, sample_history, n_samples,
                   has_beta_schedule, beta_schedule, beta_current, files>>

\* for current_epoch in t
VAENextEpoch ==
    /\ pc = "vae_next"
    /\ IF call.e < call.epochs
       THEN /\ pc' = "vae_beta"
            /\ call' = call
            /\ ret' = ret
            /\ events' = events
       ELSE /\ pc' = "idle"
            /\ call' = IdleCall
            /\ ret' = Ret("train", "none", call.given)
            /\ events' = <<>>
    /\ UNCHANGED <<kind, spec, dataset, batch, logp, has_generator, has_inference, params,
                   D_iterations, G_iterations, has_loss_history, loss_history,
                   has_sample_history, sample_history, n_samples,
                   has_beta_schedule, beta_schedule, beta_current, files, ncalls>>

\* self.beta_current = beta_schedule[current_epoch], or self.beta
VAEBeta ==
    /\ pc = "vae_beta"
    /\ IF has_beta_schedule /\ call.e >= Len(beta_schedule)
       THEN /\ Raise("train", "IndexError", call.given)
            /\ beta_current' = beta_current
       ELSE /\ beta_current' = IF has_beta_schedule THEN beta_schedule[call.e + 1]
                               ELSE Beta(BetaOf(spec), 1)
            /\ pc' = "vae_batch"
            /\ call' = [call EXCEPT !.j = 0, !.epoch_loss = <<>>]
            /\ ret' = ret
    /\ events' = <<>>
    /\ UNCHANGED <<kind, spec, dataset, batch, logp, has_generator, has_inference, params,
                   D_iterations, G_iterations, has_loss_history, loss_history,
                   has_sample_history, sample_history, n_samples,
                   has_beta_schedule, beta_schedule, files, ncalls>>

\* train_single_epoch: one compute_apply_gradients on all trainable variables
VAEMinibatch ==
    /\ pc = "vae_batch"
    /\ call.j < dataset.nb
    /\ params' = [gen |-> params.gen + 1, inf |-> params.inf + 1]
    /\ call' = [call EXCEPT !.j = @ + 1,
                            !.epoch_loss = Append(@, params.gen + 1)]
    /\ events' = Append(events, Event("update", call.e))
    /\ UNCHANGED <<kind, spec, dataset, batch, logp, has_generator, has_inference,
                   D_iterations, G_iterations, has_loss_history, loss_history,
                   has_sample_history, sample_history, n_samples,
                   has_beta_schedule, beta_schedule, beta_current, files, pc, ret,
                   ncalls>>

\* self.loss_history = np.concatenate([self.loss_history,epoch_loss])
VAEConcat ==
    /\ pc = "vae_batch"
    /\ call.j = dataset.nb
    /\ loss_history' = loss_history \o call.epoch_loss
    /\ pc' = "vae_plot"
    /\ events' = Append(events, Event("concat", call.e))
    /\ UNCHANGED <<kind, spec, dataset, batch, logp, has_generator, has_inference, params,
                   D_iterations, G_iterations, has_loss_history,
                   has_sample_history, sample_history, n_samples,
                   has_beta_schedule, beta_schedule, beta_current, files, call,
                   ret, ncalls>>

\* if plot_after_epoch: self.plot_sample(...)
VAEPlot ==
    /\ pc = "vae_plot"
    /\ n_samples' = IF call.plot THEN n_samples + 1 ELSE n_samples
    /\ IF call.plot /\ PlotRaises(dataset)
       THEN Raise("train", "StopIteration", call.given)
       ELSE /\ pc' = "vae_save"
            /\ call' = call
            /\ ret' = ret
    /\ UNCHANGED <<kind, spec, dataset, batch, logp, has_generator, has_inference, params,
                   D_iterations, G_iterations, has_loss_history, loss_history,
                   has_sample_history, sample_history, has_beta_schedule,
                   beta_schedule, beta_current, files, events, ncalls>>

\* if current_epoch % save_interval == 0: self.save(SAVED_MODELS_DIR+name)
VAESave ==
    /\ pc = "vae_save"
    /\ IF CheckpointDue(call.e, call.save_interval)
       THEN /\ files' = SaveFiles(files, spec.name, TRUE, has_generator,
                                  has_inference, params)
            /\ events' = Append(events, Event("save", call.e))
       ELSE UNCHANGED <<files, events>>
    /\ pc' = "vae_append"
    /\ UNCHANGED <<kind, spec, dataset, batch, logp, has_generator, has_inference, params,
                   D_iterations, G_iterations, has_loss_history, loss_history,
                   has_sample_history, sample_history, n_samples,
                   has_beta_schedule, beta_schedule, beta_current, call, ret,
                   ncalls>>

\* self.add_to_sample_history(apply_sigmoid=apply_sigmoid)
VAEAppend ==
    /\ pc = "vae_append"
    /\ AddToSampleHistory
    /\ events' = Append(events, Event("append", call.e))
    /\ call' = [call EXCEPT !.e = @ + 1]
    /\ pc' = "vae_next"
    /\ UNCHANGED <<kind, spec, dataset, batch, logp, has_generator, has_inference, params,
                   D_iterations, G_iterations, has_loss_history, loss_history,
                   has_beta_schedule, beta_schedule, beta_current, files, ret,
                   ncalls>>

Next ==
    \/ CallAddToSampleHistory
    \/ GANTrain
    \/ GANNextEpoch
    \/ GANMinibatch
    \/ GANEpochEnd
    \/ VAETrain
    \/ VAENextEpoch
    \/ VAEBeta
    \/ VAEMinibatch
    \/ VAEConcat
    \/ VAEPlot
    \/ VAESave
    \/ VAEAppend

Spec == Init /\ [][Next]_vars

\* ------------------------------------------------- GenerativeModel (base)
NoDataset == [set |-> FALSE, nb |-> 0, batch_size |-> 0]

BaseDatasets ==
    {NoDataset} \cup
    {[set |-> TRUE, nb |-> nb, batch_size |-> bs] :
        nb \in 1..MaxBatches, bs \in 1..MaxBatchSize}

\* A bare GenerativeModel right after __init__(spec, dataset): no network
\* yet, dataset possibly None, files of any origin already on disk.
InitBase ==
    /\ InitCommon
    /\ kind = "GenerativeModel"
    /\ spec = BaseSpec
    /\ dataset \in BaseDatasets
    /\ has_generator = FALSE
    /\ has_inference = FALSE
    /\ has_loss_history = FALSE
    /\ has_beta_schedule = FALSE
    /\ beta_schedule = <<>>
    /\ files \in [Paths -> {Absent, Foreign}]
    /\ batch = NoBatch

BaseUnchanged ==
    UNCHANGED <<kind, spec, dataset, batch, logp, params, D_iterations, G_iterations,
                has_loss_history, loss_history, has_sample_history,
                sample_history, n_samples, has_beta_schedule, beta_schedule,
                beta_current, pc, call, events>>

\* GenerativeModel.create_generator
CreateGenerator ==
    /\ ~has_generator
    /\ has_generator' = TRUE
    /\ ret' = RetOf("create_generator", "none", "none", 0, <<>>)
    /\ UNCHANGED <<has_inference, files, ncalls>>
    /\ BaseUnchanged

\* GenerativeModel.create_inference
CreateInference ==
    /\ ~has_inference
    /\ has_inference' = TRUE
    /\ ret' = RetOf("create_inference", "none", "none", 0, <<>>)
    /\ UNCHANGED <<has_generator, files, ncalls>>
    /\ BaseUnchanged

\* GenerativeModel.save(prefix, overwrite)
CallSave ==
    /\ ncalls < MaxCalls
    /\ ncalls' = ncalls + 1
    /\ \E prefix \in Prefixes, overwrite \in BOOLEAN :
        /\ files' = SaveFiles(files, prefix, overwrite, has_generator,
                              has_inference, params)
        /\ ret' = RetOf("save",
                        IF SaveRaises(has_generator, has_inference)
                        THEN "ValueError_no_model" ELSE "none",
                        prefix, 0, <<>>)
    /\ UNCHANGED <<has_generator, has_inference>>
    /\ BaseUnchanged

\* hasattr(self,'dataset'): __init__ always assigns the attribute
HasDatasetAttr(ds) == TRUE

\* GenerativeModel.test_batch: val is the index of the minibatch returned
CallTestBatch ==
    /\ ncalls < MaxCalls
    /\ ncalls' = ncalls + 1
    /\ ret' = IF ~HasDatasetAttr(dataset)
              THEN RetOf("test_batch", "ValueError_dataset_not_set", "none", 0, <<>>)
              ELSE IF ~dataset.set
              THEN RetOf("test_batch", "AttributeError", "none", 0, <<>>)
              ELSE IF dataset.nb = 0
              THEN RetOf("test_batch", "StopIteration", "none", 0, <<>>)
              ELSE RetOf("test_batch", "none", "none", 0, <<1>>)
    /\ UNCHANGED <<has_generator, has_inference, files>>
    /\ BaseUnchanged

\* GenerativeModel.sample_training(n): val is <<examples returned,
\* minibatches pulled>>
CallSampleTraining ==
    /\ ncalls < MaxCalls
    /\ ncalls' = ncalls + 1
    /\ \E n \in 1..MaxN :
        ret' = IF ~dataset.set
               THEN RetOf("sample_training", "AttributeError", "none", n, <<>>)
               ELSE IF SampleTrainingRaises(n, dataset)
               THEN RetOf("sample_training", "StopIteration", "none", n, <<>>)
               ELSE RetOf("sample_training", "none", "none", n,
                          <<SampleTrainingCount(n, dataset),
                            NBatchesToPull(n, dataset.batch_size)>>)
    /\ UNCHANGED <<has_generator, has_inference, files>>
    /\ BaseUnchanged

NextBase ==
    \/ CreateGenerator
    \/ CreateInference
    \/ CallSave
    \/ CallTestBatch
    \/ CallSampleTraining
    \/ CallAddToSampleHistory

SpecBase == InitBase /\ [][NextBase]_vars

\* ------------------------------------------------------ create_masked_logp
Examples == 1..NumExamples
Pixels == 1..NumPixels

\* latent values; even, so that the prior -z^2/2 stays an integer
ZValues == {0, 2}

\* an image batch: pixel data and, for a numpy masked array, its mask
\* (True marks an element as masked out)
\* binary images
PixelValues == {0, 1}

Images == [Examples -> [Pixels -> PixelValues]]

Batches ==
    {[masked |-> FALSE, data |-> d, mask |-> <<>>] : d \in Images}
    \cup
    {[masked |-> TRUE, data |-> d, mask |-> m] :
        d \in Images, m \in [Examples -> [Pixels -> BOOLEAN]]}

BoolToInt(b) == IF b THEN 1 ELSE 0

\* (the mask itself taken for the keep-mask)
IsUsedIsMask(b) ==
    IF b.masked
    THEN [i \in Examples |-> [p \in Pixels |-> BoolToInt(b.mask[i][p])]]
    ELSE [i \in Examples |-> [p \in Pixels |-> 1]]

\* is_used = tf.cast(1 - batch.mask, dtype) for a masked array, else the
\* scalar 1., which broadcasts to every element
IsUsed(b) ==
    IF b.masked
    THEN [i \in Examples |-> [p \in Pixels |-> 1 - BoolToInt(b.mask[i][p])]]
    ELSE [i \in Examples |-> [p \in Pixels |-> 1]]

\* create_masked_logp: what the returned closure has captured
CreateMaskedLogp(b, temperature) ==
    [built |-> TRUE, is_used |-> IsUsed(b), raw_data |-> b.data,
     temperature |-> temperature]

\* self.generative_net(z): an image of intensity z in every pixel
Decode(z) == [p \in Pixels |-> z]

\* loss_elemwise_fn(raw_data, x): the absolute error of each element
LossElemwise(raw, x) ==
    [p \in Pixels |-> IF raw[p] >= x[p] THEN raw[p] - x[p] ELSE x[p] - raw[p]]

\* self.log_prior_fn(z) = -tf.reduce_sum(z**2,axis=-1)/2, latent_dim 1
LogPrior(z) == 0 - ((z * z) \div 2)

\* tf.reduce_sum over the elements of one example
RECURSIVE ReduceSum(_, _)
ReduceSum(v, n) == IF n = 0 THEN 0 ELSE v[n] + ReduceSum(v, n - 1)

\* the closure logp(z): temperature*loglike + self.log_prior_fn(z), per example
Logp(c, z) ==
    [i \in Examples |->
        LET loss_elemwise == LossElemwise(c.raw_data[i], Decode(z[i]))
            loglike == 0 - ReduceSum([p \in Pixels |->
                                        loss_elemwise[p] * c.is_used[i][p]],
                                     NumPixels)
        IN  c.temperature * loglike + LogPrior(z[i])]

\* A VAE right after construction, and a batch to build the closure from.
InitLogp ==
    /\ InitCommon
    /\ kind = "VAE"
    /\ spec = [BaseSpec EXCEPT !.has_epochs = TRUE, !.epochs = 1]
    /\ dataset = [set |-> TRUE, nb |-> 1, batch_size |-> NumExamples]
    /\ has_generator = TRUE
    /\ has_inference = TRUE
    /\ has_loss_history = TRUE
    /\ has_beta_schedule = FALSE
    /\ beta_schedule = <<>>
    /\ files = [p \in Paths |-> Absent]
    /\ batch \in Batches

LogpUnchanged ==
    UNCHANGED <<kind, spec, dataset, has_generator, has_inference, params,
                D_iterations, G_iterations, has_loss_history, loss_history,
                has_sample_history, sample_history, n_samples,
                has_beta_schedule, beta_schedule, beta_current, files, batch,
                pc, call, events, ncalls>>

\* logp = model.create_masked_logp(batch, loss_elemwise_fn, temperature=t)
CallCreateMaskedLogp ==
    /\ \E temperature \in 0..MaxTemperature :
        logp' = CreateMaskedLogp(batch, temperature)
    /\ ret' = RetOf("create_masked_logp", "none", "none", 0, <<>>)
    /\ LogpUnchanged

\* logp(z)
CallLogp ==
    /\ logp.built
    /\ \E z \in [Examples -> ZValues] :
        ret' = [RetOf("logp", "none", "none", 0, Logp(logp, z)) EXCEPT !.z = z]
    /\ logp' = logp
    /\ LogpUnchanged

NextLogp ==
    \/ CallCreateMaskedLogp
    \/ CallLogp

SpecLogp == InitLogp /\ [][NextLogp]_vars

\* ================================================================== claims
EventIdx(ev) == {i \in 1..Len(events) : events[i].ev = ev}

\* C1: in GAN.train the generator step has fired exactly
\* floor(N / gen_train_steps) times after N discriminator updates, N counted
\* from the creation of the discriminator optimizer, across minibatches,
\* epochs and train calls.
C1_GeneratorStepFrequency ==
    kind = "GAN" => G_iterations = D_iterations \div spec.gen_train_steps

\* a second train call, the discriminator count carried over and not a
\* multiple of gen_train_steps, the generator having stepped in both calls
C1_Witness ==
    /\ kind = "GAN"
    /\ ncalls = 2
    /\ pc = "gan_batch"
    /\ spec.gen_train_steps = 2
    /\ D_iterations % 2 = 1
    /\ D_iterations > dataset.nb * spec.epochs
    /\ call.j % 2 = 0
    /\ call.j > 0
    /\ G_iterations >= 2

\* C2: train raises the epochs error exactly when the epoch count is
\* resolvable from neither the explicit argument nor the spec; with an
\* explicit argument, or with the key in the spec, it trains for that many
\* epochs.
C2_EpochsErrorIffUnresolvable ==
    /\ (ret.op = "train" /\ ret.exc = "ValueError_epochs")
            => (~ret.given /\ ~spec.has_epochs)
    /\ (pc # "idle") => (call.given \/ spec.has_epochs)
    /\ (pc # "idle" /\ call.given) => call.epochs = call.value
    /\ (pc # "idle" /\ ~call.given) => call.epochs = spec.epochs

\* C3: the beta schedule set_beta_schedule computes has length n_epochs and
\* values in [0, beta_max], so VAE.train's lookup beta_schedule[current_epoch]
\* never leaves it.
C3_BetaScheduleFitsEpochs ==
    /\ (kind = "VAE" /\ has_beta_schedule) =>
            /\ Len(beta_schedule) = spec.epochs
            /\ \A i \in 1..Len(beta_schedule) :
                    /\ beta_schedule[i].den > 0
                    /\ 0 <= beta_schedule[i].num
                    /\ beta_schedule[i].num <= BetaOf(spec) * beta_schedule[i].den
    /\ ret.exc # "IndexError"

\* C6: the sample history is append-only, one entry per epoch: no step
\* removes, reorders or replaces an entry, the first append creates the
\* sequence, and a train call that has completed E epochs has made it
\* exactly E longer.
C6_SampleHistoryAppendOnly ==
    /\ [][/\ has_sample_history => has_sample_history'
          /\ IsPrefix(sample_history, sample_history')
          /\ Len(sample_history') <= Len(sample_history) + 1
          /\ (~has_sample_history /\ has_sample_history')
                => (sample_history = <<>> /\ Len(sample_history') = 1)
          /\ has_sample_history' = (Len(sample_history') > 0)]_vars
    /\ [](pc \in {"gan_next", "vae_next"}
            => Len(sample_history) = call.hist0 + call.e)

\* a train call that started with a history and has completed all of its
\* two or more epochs
C6_Witness ==
    /\ pc \in {"gan_next", "vae_next"}
    /\ call.hist0 >= 1
    /\ call.epochs >= 2
    /\ call.e = call.epochs
    /\ Len(sample_history) >= 3

C10_CheckpointEveryInterval ==
    (kind = "VAE" /\ events # <<>>) =>
        /\ \A i \in 1..Len(events) : events[i].e = Last(events).e
        /\ \A s \in EventIdx("save") :
                /\ Last(events).e % call.save_interval = 0
                /\ Cardinality(EventIdx("update")) = dataset.nb
                /\ \A u \in EventIdx("update") \cup EventIdx("concat") : u < s
                /\ Cardinality(EventIdx("concat")) = 1
                /\ \A a \in EventIdx("append") : s < a
                /\ \A n \in Nets : files[<<spec.name, n>>].exists
        /\ \A a \in EventIdx("append") :
                /\ Cardinality(EventIdx("save")) =
                        IF Last(events).e % call.save_interval = 0 THEN 1 ELSE 0
                /\ Last(events).e = call.e - 1
                /\ a = Len(events)
                /\ EventIdx("save") # {} =>
                        /\ files[<<spec.name, "generative_net">>] = Saved("generative_net", params.gen)
                        /\ files[<<spec.name, "inference_net">>] = Saved("inference_net", params.inf)
        /\ \A p \in Paths : p[1] # spec.name => ~files[p].exists

\* epoch 2 of a call with save_interval 2 is complete and has saved
C10_Witness ==
    /\ kind = "VAE"
    /\ pc = "vae_next"
    /\ call.save_interval = 2
    /\ call.e = 3
    /\ EventIdx("save") # {}
    /\ EventIdx("append") # {}

\* the least number of whole minibatches holding n examples
BatchesNeeded(n, batch_size) == (n + batch_size - 1) \div batch_size

\* C4: on a dataset holding at least K examples sample_training(n=K) returns
\* exactly K examples and pulls whole minibatches only until the cumulative
\* count reaches K, also when the batch size divides K and when the dataset
\* holds exactly K examples.
C4_SampleTrainingExact ==
    (ret.op = "sample_training" /\ dataset.set
        /\ dataset.nb * dataset.batch_size >= ret.n) =>
        /\ ret.exc = "none"
        /\ ret.val = <<ret.n, BatchesNeeded(ret.n, dataset.batch_size)>>

\* C5: save(prefix) fails with the no-model error exactly when neither
\* sub-network exists, and then touches no file; otherwise it leaves exactly
\* the present sub-networks at their paths under the prefix, in place of
\* whatever was there, and no other path changes.
C5_SaveWritesPresentNets ==
    [][(ret'.op = "save" /\ ncalls' = ncalls + 1) =>
        /\ (ret'.exc = "ValueError_no_model") = (~has_generator /\ ~has_inference)
        /\ ret'.exc \in {"ValueError_no_model", "none"}
        /\ ret'.exc = "ValueError_no_model" => files' = files
        /\ \A p \in Paths :
            files'[p] =
                IF p = <<ret'.prefix, "generative_net">> /\ has_generator
                THEN Saved("generative_net", params.gen)
                ELSE IF p = <<ret'.prefix, "inference_net">> /\ has_inference
                THEN Saved("inference_net", params.inf)
                ELSE files[p]]_vars

\* a save of a model holding only the generator, over files of other origin
C5_Witness ==
    /\ ret.op = "save"
    /\ ret.exc = "none"
    /\ has_generator
    /\ ~has_inference
    /\ files[<<ret.prefix, "generative_net">>] = Saved("generative_net", params.gen)
    /\ files[<<ret.prefix, "inference_net">>] = Foreign

\* C8: test_batch raises the dataset-not-set error on a model constructed
\* with dataset = None and returns the first minibatch otherwise.
C8_TestBatchNeedsDataset ==
    ret.op = "test_batch" =>
        IF dataset.set
        THEN ret.exc = "none" /\ ret.val = <<1>>
        ELSE ret.exc = "ValueError_dataset_not_set"

\* the sum of f over the finite set S
RECURSIVE SumOver(_, _)
SumOver(S, f) ==
    IF S = {} THEN 0
    ELSE LET x == CHOOSE y \in S : TRUE IN f[x] + SumOver(S \ {x}, f)

Kept(i) == {p \in Pixels : ~batch.masked \/ ~batch.mask[i][p]}

AllMask(v) == batch.masked /\ \A i \in Examples, p \in Pixels : batch.mask[i][p] = v

Unmasked(b) == [masked |-> FALSE, data |-> b.data, mask |-> <<>>]

\* C9 as stated: the closure built from a batch wrapped with an all-true
\* mask returns what the closure built from the unmasked batch returns.
C9_AllTrueMaskEqualsUnmasked ==
    (ret.op = "logp" /\ AllMask(TRUE)) =>
        ret.val = Logp(CreateMaskedLogp(Unmasked(batch), logp.temperature), ret.z)

\* C9 amended: the closure built from a batch wrapped with an all-false mask
\* (no element masked out, the keep-mask all ones) returns what the closure
\* built from the unmasked batch returns; in general an element contributes
\* to the per-example loss sum exactly when its keep-mask is 1 (its mask is
\* False), and the temperature multiplies the likelihood term only, not the
\* prior term.
C9_MaskedLogp ==
    ret.op = "logp" =>
        /\ AllMask(FALSE) =>
            ret.val = Logp(CreateMaskedLogp(Unmasked(batch), logp.temperature), ret.z)
        /\ \A i \in Examples :
            ret.val[i] =
                logp.temperature
                    * (0 - SumOver(Kept(i), LossElemwise(batch.data[i], Decode(ret.z[i]))))
                + LogPrior(ret.z[i])

\* a closure over an all-false mask called at temperature 2 where both the
\* likelihood and the prior term are non-zero
C9_Witness ==
    /\ ret.op = "logp"
    /\ AllMask(FALSE)
    /\ logp.temperature = 2
    /\ \E i \in Examples :
        /\ ret.z[i] = 2
        /\ \E p \in Pixels : batch.data[i][p] # 2
        /\ ret.val[i] < LogPrior(2)

\* C11: in GAN.train a loss triple is recorded at minibatch index j exactly
\* when j is a multiple of loss_update and j > gen_train_steps; whenever one
\* is recorded a generator step has already run in the same train call, so
\* the generator loss it reads is defined, whatever the cumulative
\* discriminator count the call started from.
C11_LossTripleAfterWarmUp ==
    /\ [][(pc = "gan_batch" /\ call.j < dataset.nb) =>
            /\ (loss_history' # loss_history)
                    = (call.j % call.loss_update = 0 /\ call.j > spec.gen_train_steps)
            /\ (loss_history' # loss_history) =>
                    /\ pc' = "gan_batch"
                    /\ call'.g_defined
                    /\ G_iterations' >= 1
                    /\ loss_history' =
                        Append(loss_history, <<D_iterations', D_iterations', G_iterations'>>)]_vars
    /\ [](ret.exc # "UnboundLocalError")

\* a triple recorded in a second train call with gen_train_steps 2 that
\* started from an odd discriminator count
C11_Witness ==
    /\ kind = "GAN"
    /\ ncalls = 2
    /\ pc = "gan_batch"
    /\ spec.gen_train_steps = 2
    /\ call.e = 0
    /\ (D_iterations - call.j) % 2 = 1
    /\ Len(loss_history) >= 1

====
